---- MODULE Spec2Model ----
(***************************************************************************)
(* A model of bittrex.py: the Bittrex client, its rate limiter (wait), its *)
(* dispatcher (_api_query, dispatch) and its endpoint operations, called   *)
(* by one or two threads that share one client instance.                   *)
(*                                                                         *)
(* Text (urls, paths, argument values) is a sequence of tokens; a token is *)
(* one character or one literal piece.  Time is counted in milliseconds:   *)
(* time.time() is clock / 1000 seconds.                                    *)
(***************************************************************************)
EXTENDS Integers, Sequences, FiniteSets, TLC

\* ------------------------------------------------------------------ bounds
MaxClock == 3       \* the clock stops advancing here
MaxCalls == 3       \* operation calls made on the client in one run
MaxRaceCalls == 2   \* the same, when two callers share the client

MsPerSecond == 1000
GetTimeout == 10

Threads == {1, 2}

\* ----------------------------------------------------------- text helpers
None == <<"<None>">>
Empty == <<>>

BTC_LTC == <<"B", "T", "C", "-", "L", "T", "C">>
ETH_BTC == <<"E", "T", "H", "-", "B", "T", "C">>
usdt_ltc == <<"u", "s", "d", "t", "-", "l", "t", "c">>
ETH_WBTC == <<"E", "T", "H", "-", "W", "B", "T", "C">>
LTC == <<"L", "T", "C">>
ltc == <<"l", "t", "c">>
BTC == <<"B", "T", "C">>

\* str(v): None prints as the four characters None
Str(v) == IF v = None THEN <<"N", "o", "n", "e">> ELSE v

\* bool(v) of an argument: None and the empty string are false
Truthy(v) == v # None /\ v # Empty

UpperChars == <<"A", "B", "C", "D", "E", "F", "G", "H", "I", "J", "K", "L", "M",
                "N", "O", "P", "Q", "R", "S", "T", "U", "V", "W", "X", "Y", "Z">>
LowerChars == <<"a", "b", "c", "d", "e", "f", "g", "h", "i", "j", "k", "l", "m",
                "n", "o", "p", "q", "r", "s", "t", "u", "v", "w", "x", "y", "z">>

LowerChar(ch) ==
    IF \E i \in 1..26 : UpperChars[i] = ch
    THEN LowerChars[CHOOSE i \in 1..26 : UpperChars[i] = ch]
    ELSE ch

\* s.lower()
Lower(s) == [i \in 1..Len(s) |-> LowerChar(s[i])]

\* s.endswith(suffix)
EndsWith(s, suffix) ==
    /\ Len(suffix) <= Len(s)
    /\ SubSeq(s, Len(s) - Len(suffix) + 1, Len(s)) = suffix

\* quote_plus of one character, as urlencode applies it to keys and values
QuoteChar(ch) ==
    CASE ch = " " -> "+"
      [] ch = "&" -> "%26"
      [] ch = "=" -> "%3D"
      [] ch = "/" -> "%2F"
      [] OTHER -> ch

QuotePlus(s) == [i \in 1..Len(s) |-> QuoteChar(s[i])]

RECURSIVE UrlEncodeFrom(_, _)
UrlEncodeFrom(options, i) ==
    IF i > Len(options) THEN <<>>
    ELSE (IF i > 1 THEN <<"&">> ELSE <<>>)
         \o QuotePlus(Str(options[i][1])) \o <<"=">> \o QuotePlus(Str(options[i][2]))
         \o UrlEncodeFrom(options, i + 1)

\* urlencode(options): options is the dict as its sequence of <<key, value>>
UrlEncode(options) == UrlEncodeFrom(options, 1)

\* template.format(name=value): every {name} token is replaced by str(value)
RECURSIVE Format(_, _, _)
Format(template, name, value) ==
    IF template = <<>> THEN <<>>
    ELSE (IF Head(template) = name THEN Str(value) ELSE <<Head(template)>>)
         \o Format(Tail(template), name, value)

\* ------------------------------------------------------- module constants
API_URI == <<"https://api.bittrex.com">>
BASE_PATH == <<"/v3", "{path}">>
PROTECTION_PUB == "pub"
PROTECTION_PRV == "prv"

\* the names the module binds at import; any other global name is a NameError
ModuleGlobals ==
    {"BUY_ORDERBOOK", "SELL_ORDERBOOK", "BOTH_ORDERBOOK", "TRADE_FEE",
     "TICKINTERVAL_ONEMIN", "TICKINTERVAL_FIVEMIN", "TICKINTERVAL_HOUR",
     "TICKINTERVAL_THIRTYMIN", "TICKINTERVAL_DAY", "ORDERTYPE_LIMIT",
     "ORDERTYPE_MARKET", "TIMEINEFFECT_GOOD_TIL_CANCELLED",
     "TIMEINEFFECT_IMMEDIATE_OR_CANCEL", "TIMEINEFFECT_FILL_OR_KILL",
     "CONDITIONTYPE_NONE", "CONDITIONTYPE_GREATER_THAN", "CONDITIONTYPE_LESS_THAN",
     "CONDITIONTYPE_STOP_LOSS_FIXED", "CONDITIONTYPE_STOP_LOSS_PERCENTAGE",
     "API_URI", "API_V3_0", "BASE_PATH", "PROTECTION_PUB", "PROTECTION_PRV"}

\* ------------------------------------------------------ endpoint operations
LiveOps == {"get_markets", "get_currencies", "get_market_summaries",
            "get_market_summary", "get_market_ticker"}
V11Ops == {"buy_limit", "sell_limit"}
V11V20Ops == {"cancel", "get_open_orders", "get_balances", "get_balance",
              "get_deposit_address", "withdraw", "get_order_history", "get_order",
              "get_withdrawal_history", "get_deposit_history"}
V20Ops == {"get_wallet_health", "get_balance_distribution",
           "get_pending_withdrawals", "get_pending_deposits",
           "generate_deposit_address", "trade_sell", "trade_buy", "get_candles",
           "get_latest_candle"}
EndpointOps == LiveOps \cup V11Ops \cup V11V20Ops \cup V20Ops
Helper == "list_markets_by_currency"
Ops == EndpointOps \cup {Helper}

\* arguments of one call; a parameter the operation does not have stays None
NoArgs == [market |-> None, currency |-> None, uuid |-> None, quantity |-> None,
           rate |-> None, address |-> None, paymentid |-> None,
           tick_interval |-> None, target |-> None]

MarketArgs == {None, BTC_LTC}
CurrencyArgs == {None, LTC}

\* the argument values tried for each operation
ArgSets(o) ==
    CASE o \in {"get_market_summary", "get_market_ticker", "get_open_orders",
                "get_order_history"} ->
            {[NoArgs EXCEPT !.market = m] : m \in MarketArgs}
      [] o \in {"get_withdrawal_history", "get_deposit_history",
                "get_pending_withdrawals", "get_pending_deposits"} ->
            {[NoArgs EXCEPT !.currency = c] : c \in CurrencyArgs}
      [] o = Helper -> {[NoArgs EXCEPT !.currency = c] : c \in {LTC, ltc, BTC}}
      [] o \in {"get_balance", "get_deposit_address", "generate_deposit_address"} ->
            {[NoArgs EXCEPT !.currency = LTC]}
      [] o \in {"buy_limit", "sell_limit"} ->
            {[NoArgs EXCEPT !.market = BTC_LTC, !.quantity = <<"1.0">>,
                            !.rate = <<"0.5">>]}
      [] o \in {"trade_sell", "trade_buy"} ->
            {[NoArgs EXCEPT !.market = BTC_LTC, !.quantity = <<"1.0">>,
                            !.rate = <<"0.5">>, !.target = <<"0.0">>]}
      [] o \in {"cancel", "get_order"} -> {[NoArgs EXCEPT !.uuid = <<"u", "1">>]}
      [] o = "withdraw" ->
            {[NoArgs EXCEPT !.currency = LTC, !.quantity = <<"1.0">>,
                            !.address = <<"a", "d", "d", "r">>, !.paymentid = p] :
                p \in {None, <<"m", "e", "m", "o">>}}
      [] o \in {"get_candles", "get_latest_candle"} ->
            {[NoArgs EXCEPT !.market = BTC_LTC, !.tick_interval = <<"oneMin">>]}
      [] OTHER -> {NoArgs}

\* the value each operation passes as path_dict: the global names its expression
\* reads (the keys of a dict display) and the path strings it holds; a plain
\* string path reads no global name
PathDict(o, a) ==
    CASE o = "get_markets" -> [refs |-> {}, paths |-> << <<"/markets">> >>]
      [] o = "get_currencies" -> [refs |-> {}, paths |-> << <<"/currencies">> >>]
      [] o = "get_market_summaries" ->
            [refs |-> {}, paths |-> << <<"/markets/summaries">> >>]
      [] o = "get_market_summary" ->
            [refs |-> {},
             paths |-> << Format(<<"/markets/", "{marketSymbol}", "/summary">>,
                                 "{marketSymbol}", a.market) >>]
      [] o = "get_market_ticker" ->
            [refs |-> {},
             paths |-> << Format(<<"/markets/", "{marketSymbol}", "/ticker">>,
                                 "{marketSymbol}", a.market) >>]
      [] o = "buy_limit" ->
            [refs |-> {"API_V1_1"}, paths |-> << <<"/market/buylimit">> >>]
      [] o = "sell_limit" ->
            [refs |-> {"API_V1_1"}, paths |-> << <<"/market/selllimit">> >>]
      [] o = "cancel" ->
            [refs |-> {"API_V1_1", "API_V2_0"},
             paths |-> << <<"/market/cancel">>, <<"/key/market/tradecancel">> >>]
      [] o = "get_open_orders" ->
            [refs |-> {"API_V1_1", "API_V2_0"},
             paths |-> << <<"/market/getopenorders">>,
                          <<"/key/market/getopenorders">> >>]
      [] o = "get_balances" ->
            [refs |-> {"API_V1_1", "API_V2_0"},
             paths |-> << <<"/account/getbalances">>,
                          <<"/key/balance/GetBalances">> >>]
      [] o = "get_balance" ->
            [refs |-> {"API_V1_1", "API_V2_0"},
             paths |-> << <<"/account/getbalance">>,
                          <<"/key/balance/getbalance">> >>]
      [] o = "get_deposit_address" ->
            [refs |-> {"API_V1_1", "API_V2_0"},
             paths |-> << <<"/account/getdepositaddress">>,
                          <<"/key/balance/getdepositaddress">> >>]
      [] o = "withdraw" ->
            [refs |-> {"API_V1_1", "API_V2_0"},
             paths |-> << <<"/account/withdraw">>,
                          <<"/key/balance/withdrawcurrency">> >>]
      [] o = "get_order_history" ->
            [refs |-> {"API_V1_1", "API_V2_0"},
             paths |-> << <<"/account/getorderhistory">>,
                          IF Truthy(a.market) THEN <<"/key/market/GetOrderHistory">>
                          ELSE <<"/key/orders/getorderhistory">> >>]
      [] o = "get_order" ->
            [refs |-> {"API_V1_1", "API_V2_0"},
             paths |-> << <<"/account/getorder">>, <<"/key/orders/getorder">> >>]
      [] o = "get_withdrawal_history" ->
            [refs |-> {"API_V1_1", "API_V2_0"},
             paths |-> << <<"/account/getwithdrawalhistory">>,
                          <<"/key/balance/getwithdrawalhistory">> >>]
      [] o = "get_deposit_history" ->
            [refs |-> {"API_V1_1", "API_V2_0"},
             paths |-> << <<"/account/getdeposithistory">>,
                          <<"/key/balance/getdeposithistory">> >>]
      [] o = "get_wallet_health" ->
            [refs |-> {"API_V2_0"},
             paths |-> << <<"/pub/Currencies/GetWalletHealth">> >>]
      [] o = "get_balance_distribution" ->
            [refs |-> {"API_V2_0"},
             paths |-> << <<"/pub/Currency/GetBalanceDistribution">> >>]
      [] o = "get_pending_withdrawals" ->
            [refs |-> {"API_V2_0"},
             paths |-> << <<"/key/balance/getpendingwithdrawals">> >>]
      [] o \in {"get_pending_deposits", "generate_deposit_address"} ->
            [refs |-> {"API_V2_0"},
             paths |-> << <<"/key/balance/getpendingdeposits">> >>]
      [] o = "trade_sell" ->
            [refs |-> {"API_V2_0"}, paths |-> << <<"/key/market/tradesell">> >>]
      [] o = "trade_buy" ->
            [refs |-> {"API_V2_0"}, paths |-> << <<"/key/market/tradebuy">> >>]
      [] o = "get_candles" ->
            [refs |-> {"API_V2_0"}, paths |-> << <<"/pub/market/GetTicks">> >>]
      [] o = "get_latest_candle" ->
            [refs |-> {"API_V2_0"}, paths |-> << <<"/pub/market/GetLatestTick">> >>]

\* options=None, told apart from every dict
NoOptions == <<None>>

\* the value each operation passes as options: the dict as its sequence of
\* <<key, value>>, or NoOptions when it passes none
Options(o, a) ==
    CASE o \in {"buy_limit", "sell_limit"} ->
            << <<<<"market">>, a.market>>, <<<<"quantity">>, a.quantity>>,
               <<<<"rate">>, a.rate>> >>
      [] o \in {"cancel", "get_order"} ->
            << <<<<"uuid">>, a.uuid>>, <<<<"orderid">>, a.uuid>> >>
      [] o \in {"get_open_orders", "get_order_history"} ->
            IF Truthy(a.market)
            THEN << <<<<"market">>, a.market>>, <<<<"marketname">>, a.market>> >>
            ELSE NoOptions
      [] o \in {"get_balance", "get_deposit_address"} ->
            << <<<<"currency">>, a.currency>>, <<<<"currencyname">>, a.currency>> >>
      [] o = "withdraw" ->
            << <<<<"currency">>, a.currency>>, <<<<"quantity">>, a.quantity>>,
               <<<<"address">>, a.address>> >>
            \o (IF Truthy(a.paymentid) THEN << <<<<"paymentid">>, a.paymentid>> >>
                ELSE <<>>)
      [] o \in {"get_withdrawal_history", "get_deposit_history"} ->
            IF Truthy(a.currency)
            THEN << <<<<"currency">>, a.currency>>,
                    <<<<"currencyname">>, a.currency>> >>
            ELSE NoOptions
      [] o \in {"get_pending_withdrawals", "get_pending_deposits"} ->
            IF Truthy(a.currency) THEN << <<<<"currencyname">>, a.currency>> >>
            ELSE NoOptions
      [] o = "generate_deposit_address" -> << <<<<"currencyname">>, a.currency>> >>
      [] o \in {"trade_sell", "trade_buy"} ->
            << <<<<"marketname">>, a.market>>, <<<<"ordertype">>, None>>,
               <<<<"quantity">>, a.quantity>>, <<<<"rate">>, a.rate>>,
               <<<<"timeInEffect">>, None>>, <<<<"conditiontype">>, None>>,
               <<<<"target">>, a.target>> >>
      [] o \in {"get_candles", "get_latest_candle"} ->
            << <<<<"marketName">>, a.market>>,
               <<<<"tickInterval">>, a.tick_interval>> >>
      [] OTHER -> NoOptions

\* the value each operation passes as protection ("None" when it passes none)
Protection(o) ==
    CASE o \in LiveOps -> "None"
      [] o \in {"get_wallet_health", "get_balance_distribution", "get_candles",
                "get_latest_candle"} -> PROTECTION_PUB
      [] OTHER -> PROTECTION_PRV

\* the operation whose _api_query call serves operation o
EndpointOf(o) == IF o = Helper THEN "get_markets" ELSE o

\* ------------------------------------------------------------ exceptions
\* an exception: its class and the args it was raised with
NoFault == [cls |-> "", args |-> <<>>]
NameError == [cls |-> "NameError", args |-> <<"name 'API_V1_1' is not defined">>]
TypeError == [cls |-> "TypeError", args |-> <<"'NoneType' object is not iterable">>]
ReadTimeout == [cls |-> "ReadTimeout", args |-> <<"Read timed out.">>]
Timeout == [cls |-> "Timeout", args |-> <<>>]
JSONDecodeError == [cls |-> "JSONDecodeError", args |-> <<"Expecting value">>]
KeyboardInterrupt == [cls |-> "KeyboardInterrupt", args |-> <<>>]

\* what may end time.sleep, requests.get and response.json early
SleepFaults == {KeyboardInterrupt}
GetFaults == {ReadTimeout, Timeout, KeyboardInterrupt}
JsonFaults == {JSONDecodeError}

\* isinstance(e, Exception): KeyboardInterrupt derives from BaseException only
IsException(e) == e.cls # "KeyboardInterrupt"

\* str(e): the empty string without args, the one arg, or the tuple of args
ExcStr(e) ==
    CASE Len(e.args) = 0 -> ""
      [] Len(e.args) = 1 -> e.args[1]
      [] OTHER -> "(...)"

\* ---------------------------------------------------------------- values
\* a JSON value of the response's result: null, or a list of items
JsonNull == [null |-> TRUE, items |-> <<>>]
JsonList(xs) == [null |-> FALSE, items |-> xs]

\* the market lists the exchange is seen to answer with
MarketLists ==
    {<<>>,
     <<[MarketName |-> BTC_LTC], [MarketName |-> ETH_BTC], [MarketName |-> usdt_ltc]>>,
     <<[MarketName |-> ETH_WBTC], [MarketName |-> BTC_LTC]>>}

\* the JSON bodies the exchange answers a request for url with
Answers(url) ==
    {[success |-> FALSE, message |-> "INVALID_MARKET", result |-> JsonNull]}
    \cup (IF EndsWith(url, <<"/markets">>)
          THEN {[success |-> TRUE, message |-> "", result |-> JsonList(l)] :
                    l \in MarketLists}
          ELSE {[success |-> TRUE, message |-> "", result |-> JsonList(<<>>)]})

\* how one call ends: a returned value or a raised exception
NoOutcome == [kind |-> "none"]
Return(v) == [kind |-> "return", value |-> v]
Raise(e) == [kind |-> "raise", exc |-> e]

\* ------------------------------------------------------------ the client
VARIABLES
    clock,              \* time.time(), in milliseconds
    callers,            \* the threads that use the client
    calls_per_second,   \* the constructor's argument
    api_key, api_secret,
    last_call,          \* <<>> for None, <<t>> once set
    pc,                 \* where each thread stands
    op, args,           \* the operation each thread is in, and its arguments
    request_url, nonce, \* locals of _api_query
    now, passed,        \* locals of wait
    deadline,           \* when the running time.sleep ends
    answer,             \* how the _api_query call of each thread's last call ended
    outcome,            \* how each thread's last call ended
    fault,              \* the exception raised inside _api_query's try block
    queries,            \* _api_query invocations of each thread's current call
    sent,               \* the requests.get calls of each thread's current call
    ncalls,             \* operation calls made so far
    seenAt,             \* how many last_call writes preceded the thread's read
    waitIdx,            \* the waitLog entry of each thread's current call, or 0
    waitLog,            \* one entry per return of wait()
    stamps              \* the Api-Timestamp of the last two requests sent, oldest first

vars == <<clock, callers, calls_per_second, api_key, api_secret, last_call, pc, op,
          args, request_url, nonce, now, passed, deadline, answer, outcome, fault,
          queries, sent, ncalls, seenAt, waitIdx, waitLog, stamps>>

locals == <<request_url, nonce, now, passed, deadline>>
config == <<callers, calls_per_second, api_key, api_secret>>

\* the rates tried: 1000 and 500 calls per second
RateChoices == {MsPerSecond, MsPerSecond \div 2}
Credentials == {<<<<"key">>, <<"secret">>>>}

\* str(v) if v is not None else ''
CtorStr(v) == IF v # None THEN Str(v) ELSE <<>>

\* self.call_rate = 1.0 / calls_per_second, in milliseconds
CallRate == MsPerSecond \div calls_per_second

\* self.base_url = '{uri}{path}'.format(uri=uri, path=BASE_PATH)
BaseUrl == Format(Format(<<"{uri}", "{path}">>, "{uri}", API_URI), "{path}", BASE_PATH)

\* the client after Bittrex(api_key, api_secret, calls_per_second), used by the
\* threads of who
Constructed(who) ==
    /\ clock = 0
    /\ callers = who
    /\ calls_per_second \in RateChoices
    /\ \E cr \in Credentials :
          /\ api_key = CtorStr(cr[1])
          /\ api_secret = CtorStr(cr[2])
    /\ last_call = <<>>
    /\ pc = [c \in Threads |-> "idle"]
    /\ op = [c \in Threads |-> ""]
    /\ args = [c \in Threads |-> NoArgs]
    /\ request_url = [c \in Threads |-> <<>>]
    /\ nonce = [c \in Threads |-> <<>>]
    /\ now = [c \in Threads |-> 0]
    /\ passed = [c \in Threads |-> 0]
    /\ deadline = [c \in Threads |-> 0]
    /\ answer = [c \in Threads |-> NoOutcome]
    /\ outcome = [c \in Threads |-> NoOutcome]
    /\ fault = [c \in Threads |-> NoFault]
    /\ queries = [c \in Threads |-> 0]
    /\ sent = [c \in Threads |-> <<>>]
    /\ ncalls = 0
    /\ seenAt = [c \in Threads |-> 0]
    /\ waitIdx = [c \in Threads |-> 0]
    /\ waitLog = <<>>
    /\ stamps = <<>>

\* one caller
Init == Constructed({1})

\* two callers sharing the client
InitRace == Constructed(Threads)

\* ------------------------------------------------------------- _api_query
\* request_url of _api_query: the base with the path filled in, then the
\* encoded options, with nothing between them
RequestUrl(path, options) ==
    Format(BaseUrl, "{path}", path)
    \o UrlEncode(IF options = NoOptions \/ options = <<>> THEN <<>> ELSE options)

\* a nonce that keeps only the parity of the millisecond
NonceOfWrapped(t) == <<ToString(t % 2)>>

\* nonce = str(int(time.time() * 1000))
NonceOf(t) == <<ToString(t)>>

\* an except clause that hands every exception on
ApiQueryExceptReraise(e) == Raise(e)

\* the except clause of _api_query: an Exception becomes the failure value,
\* anything else propagates
ApiQueryExcept(e) ==
    IF IsException(e)
    THEN Return([success |-> FALSE, message |-> "NO_API_RESPONSE",
                 result |-> JsonNull, error |-> ExcStr(e)])
    ELSE Raise(e)

\* list_markets_by_currency on what get_markets gave: the names of the result's
\* markets that end with the currency, both in lower case; a result of None
\* cannot be iterated
ListMarkets(out, currency) ==
    IF out.kind = "raise" THEN out
    ELSE IF out.value.result.null THEN Raise(TypeError)
    ELSE LET ms == SelectSeq(out.value.result.items,
                     LAMBDA m : EndsWith(Lower(m.MarketName), Lower(currency)))
         IN Return([i \in 1..Len(ms) |-> ms[i].MarketName])

\* what operation o hands its caller, given how its _api_query call ended
Finish(o, a, out) == IF o = Helper THEN ListMarkets(out, a.currency) ELSE out

\* a thread calls operation o with arguments a: the operation evaluates the
\* arguments of its _api_query call, and _api_query runs up to the try block
Call(c, o, a) ==
    /\ c \in callers
    /\ pc[c] \in {"idle", "done"}
    /\ ncalls < MaxCalls
    /\ ncalls' = ncalls + 1
    /\ op' = [op EXCEPT ![c] = o]
    /\ args' = [args EXCEPT ![c] = a]
    /\ fault' = [fault EXCEPT ![c] = NoFault]
    /\ sent' = [sent EXCEPT ![c] = <<>>]
    /\ waitIdx' = [waitIdx EXCEPT ![c] = 0]
    /\ LET e == EndpointOf(o)
           pd == PathDict(e, a)
       IN IF pd.refs \subseteq ModuleGlobals
          THEN /\ request_url' =
                     [request_url EXCEPT ![c] = RequestUrl(pd.paths[1], Options(e, a))]
               /\ nonce' = [nonce EXCEPT ![c] = NonceOf(clock)]
               /\ queries' = [queries EXCEPT ![c] = 1]
               /\ outcome' = [outcome EXCEPT ![c] = NoOutcome]
               /\ answer' = [answer EXCEPT ![c] = NoOutcome]
               /\ pc' = [pc EXCEPT ![c] = "wait"]
          ELSE /\ outcome' = [outcome EXCEPT ![c] = Raise(NameError)]
               /\ answer' = [answer EXCEPT ![c] = NoOutcome]
               /\ queries' = [queries EXCEPT ![c] = 0]
               /\ pc' = [pc EXCEPT ![c] = "done"]
               /\ UNCHANGED <<request_url, nonce>>
    /\ UNCHANGED <<clock, config, stamps, last_call, now, passed, deadline, seenAt, waitLog>>

\* ------------------------------------------------------------------- wait
\* the comparison the wrong way round
MustSleepFlipped(p) == p > CallRate

\* if passed < self.call_rate
MustSleep(p) == p < CallRate

\* a sleep of the time passed, not of the time left
SleepForPassed(p) == p

\* a sleep of the whole call_rate, whatever has passed
SleepForFull(p) == CallRate

\* time.sleep(self.call_rate - passed)
SleepFor(p) == CallRate - p

\* one return of wait(): the caller, the clock at the return, and how many
\* writes of last_call had preceded the caller's read of it
WaitEntry(c) == [caller |-> c, t |-> clock, reads |-> seenAt[c]]

\* if self.last_call is None: ... else: now = time.time()
WaitCheck(c) ==
    /\ pc[c] = "wait"
    /\ IF last_call = <<>>
       THEN /\ pc' = [pc EXCEPT ![c] = "w_init"]
            /\ seenAt' = [seenAt EXCEPT ![c] = Len(waitLog)]
            /\ UNCHANGED now
       ELSE /\ pc' = [pc EXCEPT ![c] = "w_passed"]
            /\ now' = [now EXCEPT ![c] = clock]
            /\ UNCHANGED seenAt
    /\ UNCHANGED <<clock, config, stamps, last_call, op, args, request_url, nonce, passed,
                   deadline, answer, outcome, fault, queries, sent, ncalls, waitIdx, waitLog>>

\* a first call that sleeps a full interval after setting last_call
WaitInitSleeps(c) ==
    /\ pc[c] = "w_init"
    /\ last_call' = <<clock>>
    /\ deadline' = [deadline EXCEPT ![c] = clock + CallRate]
    /\ pc' = [pc EXCEPT ![c] = "w_sleep"]
    /\ UNCHANGED <<clock, config, stamps, op, args, request_url, nonce, now, passed, answer,
                   outcome, fault, queries, sent, ncalls, seenAt, waitIdx, waitLog>>

\* self.last_call = time.time(), on the first call: wait returns
WaitInit(c) ==
    /\ pc[c] = "w_init"
    /\ last_call' = <<clock>>
    /\ waitLog' = Append(waitLog, WaitEntry(c))
    /\ waitIdx' = [waitIdx EXCEPT ![c] = Len(waitLog) + 1]
    /\ pc' = [pc EXCEPT ![c] = "dispatch"]
    /\ UNCHANGED <<clock, config, stamps, op, args, locals, answer, outcome, fault, queries, sent,
                   ncalls, seenAt>>

\* passed = now - self.last_call; if passed < self.call_rate: time.sleep(...)
WaitPassed(c) ==
    /\ pc[c] = "w_passed"
    /\ LET p == now[c] - last_call[1]
       IN /\ passed' = [passed EXCEPT ![c] = p]
          /\ IF MustSleep(p)
             THEN /\ deadline' = [deadline EXCEPT ![c] = clock + SleepFor(p)]
                  /\ pc' = [pc EXCEPT ![c] = "w_sleep"]
             ELSE /\ pc' = [pc EXCEPT ![c] = "w_write"]
                  /\ UNCHANGED deadline
    /\ seenAt' = [seenAt EXCEPT ![c] = Len(waitLog)]
    /\ UNCHANGED <<clock, config, stamps, last_call, op, args, request_url, nonce, now,
                   answer, outcome, fault, queries, sent, ncalls, waitIdx, waitLog>>

\* time.sleep returns: not before the time asked for has gone by
WaitWake(c) ==
    /\ pc[c] = "w_sleep"
    /\ clock >= deadline[c]
    /\ pc' = [pc EXCEPT ![c] = "w_write"]
    /\ UNCHANGED <<clock, config, stamps, last_call, op, args, locals, answer, outcome, fault,
                   queries, sent, ncalls, seenAt, waitIdx, waitLog>>

\* the _api_query call of thread c is over with out, and with it the operation:
\* their locals are gone
Over(c, out) ==
    /\ answer' = [answer EXCEPT ![c] = out]
    /\ outcome' = [outcome EXCEPT ![c] = Finish(op[c], args[c], out)]
    /\ pc' = [pc EXCEPT ![c] = "done"]
    /\ request_url' = [request_url EXCEPT ![c] = <<>>]
    /\ nonce' = [nonce EXCEPT ![c] = <<>>]
    /\ now' = [now EXCEPT ![c] = 0]
    /\ passed' = [passed EXCEPT ![c] = 0]
    /\ deadline' = [deadline EXCEPT ![c] = 0]
    /\ seenAt' = [seenAt EXCEPT ![c] = 0]

\* time.sleep is ended by an exception: wait raises it into _api_query's try
WaitInterrupt(c) ==
    /\ pc[c] = "w_sleep"
    /\ \E e \in SleepFaults :
          /\ fault' = [fault EXCEPT ![c] = e]
          /\ Over(c, ApiQueryExcept(e))
    /\ UNCHANGED <<clock, config, stamps, last_call, op, args, queries, sent, ncalls, waitIdx,
                   waitLog>>

\* a wait that stores the time it read before sleeping
WaitWriteStale(c) ==
    /\ pc[c] = "w_write"
    /\ last_call' = <<now[c]>>
    /\ waitLog' = Append(waitLog, WaitEntry(c))
    /\ waitIdx' = [waitIdx EXCEPT ![c] = Len(waitLog) + 1]
    /\ pc' = [pc EXCEPT ![c] = "dispatch"]
    /\ UNCHANGED <<clock, config, stamps, op, args, locals, answer, outcome, fault, queries, sent,
                   ncalls, seenAt>>

\* self.last_call = time.time(), after the sleep if any: wait returns
WaitWrite(c) ==
    /\ pc[c] = "w_write"
    /\ last_call' = <<clock>>
    /\ waitLog' = Append(waitLog, WaitEntry(c))
    /\ waitIdx' = [waitIdx EXCEPT ![c] = Len(waitLog) + 1]
    /\ pc' = [pc EXCEPT ![c] = "dispatch"]
    /\ UNCHANGED <<clock, config, stamps, op, args, locals, answer, outcome, fault, queries, sent,
                   ncalls, seenAt>>

\* --------------------------------------------------------------- dispatch
\* hashlib.sha512(x).hexdigest() and hmac.new(key, msg, sha512).hexdigest(), as
\* terms over their inputs
Sha512(x) == <<"sha512(">> \o x \o <<")">>
HmacSha512(key, msg) == <<"hmac-sha512(">> \o key \o <<",">> \o msg \o <<")">>

\* headers whose timestamp is read again when they are built
HeadersFreshStamp(url, api_timestamp, body) ==
    LET request_body == IF Truthy(body) THEN body ELSE <<>>
        signature == Sha512(request_body)
        pre_sign == api_timestamp \o url \o <<"GET">> \o signature
        api_sign == HmacSha512(api_secret, pre_sign)
    IN ("Api-Key" :> api_key) @@ ("Api-Timestamp" :> NonceOf(clock))
       @@ ("Api-Content-Hash" :> signature) @@ ("Api-Signature" :> api_sign)

\* the headers dispatch sends, whatever the operation
Headers(url, api_timestamp, body) ==
    LET request_body == IF Truthy(body) THEN body ELSE <<>>
        signature == Sha512(request_body)
        pre_sign == api_timestamp \o url \o <<"GET">> \o signature
        api_sign == HmacSha512(api_secret, pre_sign)
    IN ("Api-Key" :> api_key) @@ ("Api-Timestamp" :> api_timestamp)
       @@ ("Api-Content-Hash" :> signature) @@ ("Api-Signature" :> api_sign)

\* the last two of a sequence
LastTwo(q) == IF Len(q) > 2 THEN SubSeq(q, Len(q) - 1, Len(q)) ELSE q

\* one requests.get: when, for what url, with which headers and timeout
Request(c) ==
    [t |-> clock, url |-> request_url[c],
     headers |-> Headers(request_url[c], nonce[c], None), timeout |-> GetTimeout]

\* how requests.get followed by response.json() may end: an exception of the
\* GET, an exception of the decoding, or the decoded body
DispatchResults(url) ==
    {[fault |-> e, value |-> JsonNull] : e \in GetFaults \cup JsonFaults}
    \cup {[fault |-> NoFault, value |-> v] : v \in Answers(url)}

\* a dispatch that sends the request once more after a transport failure
DispatchRetry(c) ==
    /\ pc[c] = "dispatch"
    /\ sent' = [sent EXCEPT ![c] = Append(@, Request(c))]
    /\ stamps' = LastTwo(Append(stamps, Request(c).headers["Api-Timestamp"]))
    /\ \E r \in DispatchResults(request_url[c]) :
          /\ fault' = [fault EXCEPT ![c] = r.fault]
          /\ IF r.fault # NoFault /\ IsException(r.fault) /\ sent[c] = <<>>
             THEN UNCHANGED <<pc, answer, outcome, locals, seenAt>>
             ELSE Over(c, IF r.fault = NoFault THEN Return(r.value)
                          ELSE ApiQueryExcept(r.fault))
    /\ UNCHANGED <<clock, config, last_call, op, args, queries, ncalls, waitIdx,
                   waitLog>>

\* return self.dispatch(request_url, nonce, body), and the except clause
Dispatch(c) ==
    /\ pc[c] = "dispatch"
    /\ sent' = [sent EXCEPT ![c] = Append(@, Request(c))]
    /\ stamps' = LastTwo(Append(stamps, Request(c).headers["Api-Timestamp"]))
    /\ \E r \in DispatchResults(request_url[c]) :
          /\ fault' = [fault EXCEPT ![c] = r.fault]
          /\ Over(c, IF r.fault = NoFault THEN Return(r.value)
                     ELSE ApiQueryExcept(r.fault))
    /\ UNCHANGED <<clock, config, last_call, op, args, queries, ncalls, waitIdx,
                   waitLog>>

\* ------------------------------------------------------------------- time
\* a millisecond goes by
Tick ==
    /\ clock < MaxClock
    /\ clock' = clock + 1
    /\ UNCHANGED <<config, stamps, last_call, pc, op, args, locals, answer, outcome, fault, queries,
                   sent, ncalls, seenAt, waitIdx, waitLog>>

\* the steps of one thread inside a call
Step(c) ==
    \/ WaitCheck(c)
    \/ WaitInit(c)
    \/ WaitPassed(c)
    \/ WaitWake(c)
    \/ WaitInterrupt(c)
    \/ WaitWrite(c)
    \/ Dispatch(c)

Next ==
    \/ \E c \in Threads : \E o \in Ops : \E a \in ArgSets(o) : Call(c, o, a)
    \/ \E c \in Threads : Step(c)
    \/ Tick

Spec == Init /\ [][Next]_vars

\* the operations the two racing callers use
RaceOps == {"get_currencies", "get_balances"}

NextRace ==
    \/ \E c \in Threads : \E o \in RaceOps : \E a \in ArgSets(o) :
          ncalls < MaxRaceCalls /\ Call(c, o, a)
    \/ \E c \in Threads : Step(c)
    \/ Tick

SpecRace == InitRace /\ [][NextRace]_vars

\* ================================================================ claims

\* the failure value _api_query synthesizes, with error as its error string
FailureValue(error) ==
    [success |-> FALSE, message |-> "NO_API_RESPONSE", result |-> JsonNull,
     error |-> error]

\* thread c's call is over and its try block raised
Failed(c) == pc[c] = "done" /\ fault[c] # NoFault

\* C1 as stated: whenever the wait, the GET or the decoding raised any
\* exception, _api_query returned the failure value, with a non-empty error
C1_AnyExceptionReturned ==
    \A c \in Threads :
        Failed(c) =>
            /\ answer[c].kind = "return"
            /\ answer[c].value = FailureValue(answer[c].value.error)
            /\ answer[c].value.error # ""

\* C1: whenever the wait, the GET or the decoding raised an exception that
\* derives from Exception, _api_query returned the failure value whose error is
\* the exception's one argument, or the empty string when it has none; any
\* other exception left _api_query as it was raised
C1_ExceptionReturned ==
    \A c \in Threads :
        Failed(c) =>
            IF fault[c].cls # "KeyboardInterrupt"
            THEN answer[c] =
                    Return(FailureValue(IF fault[c].args = <<>> THEN ""
                                        ELSE fault[c].args[1]))
            ELSE answer[c] = Raise(fault[c])

C1_Witness ==
    \E c \in Threads :
        /\ Failed(c)
        /\ fault[c] = JSONDecodeError
        /\ answer[c].kind = "return"
        /\ sent[c] # <<>>

\* the exceptions of a transport or parse failure
TransportFaults == {ReadTimeout, Timeout, JSONDecodeError}

\* C2: an operation whose request failed in transport or parsing returned
\* normally
C2_FailureNeverPropagates ==
    \A c \in Threads :
        (pc[c] = "done" /\ fault[c] \in TransportFaults) => outcome[c].kind = "return"

\* C3: with one caller, consecutive returns of wait() are at least call_rate
\* apart, the n-th return is at least (n-1) * call_rate after the first, and so
\* is the GET of the call it belongs to
C3_Spacing ==
    /\ \A i \in 1..(Len(waitLog) - 1) : waitLog[i + 1].t - waitLog[i].t >= CallRate
    /\ \A i \in 1..Len(waitLog) : waitLog[i].t - waitLog[1].t >= (i - 1) * CallRate
    /\ \A c \in Threads : \A k \in 1..Len(sent[c]) :
          sent[c][k].t - waitLog[1].t >= (waitIdx[c] - 1) * CallRate

C3_Witness ==
    /\ Len(waitLog) = 3
    /\ waitLog[3].t - waitLog[1].t = 2 * CallRate
    /\ Failed(1)
    /\ sent[1] # <<>>

\* C4: the wait() that finds last_call None does not sleep: its one step sets
\* last_call to the clock and returns to the dispatcher, and nothing else of
\* the client changes
C4_FirstWaitNeverSleeps ==
    [][\A c \in Threads :
          /\ (pc[c] = "wait" /\ last_call = <<>> /\ pc'[c] # "wait") => pc'[c] = "w_init"
          /\ (pc[c] = "w_init" /\ pc'[c] # "w_init") =>
                /\ pc'[c] = "dispatch"
                /\ last_call' = <<clock>>
                /\ clock' = clock
                /\ UNCHANGED <<config, locals, op, args, answer, outcome, fault, sent>>]_vars

C4_Witness ==
    /\ Len(waitLog) = 1
    /\ waitLog[1].caller = 1
    /\ pc[1] = "dispatch"
    /\ last_call = <<waitLog[1].t>>
    /\ deadline[1] = 0

\* the authentication headers
AuthHeaders == {"Api-Key", "Api-Timestamp", "Api-Content-Hash", "Api-Signature"}

\* C5: a request carries the authentication headers exactly when its operation
\* is private
C5_AuthOnlyWhenPrivate ==
    \A c \in Threads : \A k \in 1..Len(sent[c]) :
        (AuthHeaders \subseteq DOMAIN sent[c][k].headers)
            <=> (Protection(EndpointOf(op[c])) = PROTECTION_PRV)

\* C6: an endpoint operation that is over has a plain string path, reached the
\* dispatcher exactly once, and any request it sent went to the base url followed
\* by its path and its encoded query parameters
C6_OneDispatchToTheEndpoint ==
    \A c \in Threads :
        (pc[c] = "done" /\ op[c] \in EndpointOps) =>
            /\ queries[c] = 1
            /\ PathDict(op[c], args[c]).refs = {}
            /\ \A k \in 1..Len(sent[c]) :
                  sent[c][k].url =
                      API_URI \o <<"/v3">> \o PathDict(op[c], args[c]).paths[1]
                      \o UrlEncode(IF Options(op[c], args[c]) = NoOptions THEN <<>>
                                   ELSE Options(op[c], args[c]))

\* the operations with an optional filter argument, its key and its value
FilterOps == {"get_order_history", "get_open_orders", "get_withdrawal_history",
              "get_deposit_history", "withdraw"}
FilterKey(o) ==
    CASE o \in {"get_order_history", "get_open_orders"} -> "market"
      [] o \in {"get_withdrawal_history", "get_deposit_history"} -> "currency"
      [] o = "withdraw" -> "paymentid"
FilterArg(o, a) ==
    CASE o \in {"get_order_history", "get_open_orders"} -> a.market
      [] o \in {"get_withdrawal_history", "get_deposit_history"} -> a.currency
      [] o = "withdraw" -> a.paymentid

\* url holds key=..., and key=value
HasKey(url, key) == \E i \in 1..(Len(url) - 1) : url[i] = key /\ url[i + 1] = "="
HasParam(url, key, value) ==
    \E i \in 1..(Len(url) - 1) :
        /\ url[i] = key
        /\ url[i + 1] = "="
        /\ i + 1 + Len(value) <= Len(url)
        /\ SubSeq(url, i + 2, i + 1 + Len(value)) = value
        /\ (i + 1 + Len(value) = Len(url) \/ url[i + 2 + Len(value)] = "&")

\* C7: an operation with an optional filter that is over sent a request whose
\* query string has the filter's key with the given value when the filter was
\* given, and sent no request with the key when it was omitted
C7_OptionalFilter ==
    \A c \in Threads :
        (pc[c] = "done" /\ op[c] \in FilterOps) =>
            IF FilterArg(op[c], args[c]) = None
            THEN \A k \in 1..Len(sent[c]) : ~HasKey(sent[c][k].url, FilterKey(op[c]))
            ELSE /\ sent[c] # <<>>
                 /\ HasParam(sent[c][1].url, FilterKey(op[c]), FilterArg(op[c], args[c]))

\* the part of a market name after its last "-"
TrailingComponent(name) ==
    LET dashes == {i \in 1..Len(name) : name[i] = "-"}
        last == IF dashes = {} THEN 0 ELSE CHOOSE i \in dashes : \A j \in dashes : j <= i
    IN SubSeq(name, last + 1, Len(name))

\* C8: list_markets_by_currency returns, in the order of the list get_markets
\* returned, exactly the names whose trailing component is the currency,
\* ignoring case
C8_MarketsByTrailingComponent ==
    \A c \in Threads :
        (pc[c] = "done" /\ op[c] = Helper /\ outcome[c].kind = "return") =>
            LET ms == SelectSeq(answer[c].value.result.items,
                          LAMBDA m : Lower(TrailingComponent(m.MarketName))
                                         = Lower(args[c].currency))
            IN outcome[c].value = [i \in 1..Len(ms) |-> ms[i].MarketName]

\* C9: one call of an operation issues at most one GET and reaches _api_query
\* at most once, and what the exchange answered is what _api_query returned
C9_NoRetry ==
    \A c \in Threads :
        /\ Len(sent[c]) <= 1
        /\ queries[c] <= 1
        /\ (pc[c] = "done" /\ queries[c] = 1 /\ fault[c] = NoFault) =>
              /\ Len(sent[c]) = 1
              /\ answer[c].kind = "return"
              /\ answer[c].value \in Answers(sent[c][1].url)

C9_Witness ==
    \E c \in Threads :
        /\ pc[c] = "done"
        /\ Len(sent[c]) = 1
        /\ fault[c] = NoFault
        /\ answer[c].kind = "return"
        /\ ~answer[c].value.success

\* C10: with two callers, two consecutive returns of wait() are less than
\* call_rate apart only when they are of different callers and the later one
\* read last_call before the earlier one wrote it
C10_UnderThrottleOnlyByRace ==
    \A i \in 1..(Len(waitLog) - 1) :
        waitLog[i + 1].t - waitLog[i].t < CallRate =>
            /\ waitLog[i + 1].caller # waitLog[i].caller
            /\ waitLog[i + 1].reads < i

\* both callers read last_call before either wrote it, both passed the limiter,
\* and their two requests went out less than call_rate apart
C10_Witness ==
    /\ sent[1] # <<>> /\ sent[2] # <<>>
    /\ waitIdx[1] > 0 /\ waitIdx[2] > 0
    /\ waitLog[waitIdx[1]].reads < waitIdx[1] /\ waitLog[waitIdx[1]].reads < waitIdx[2]
    /\ waitLog[waitIdx[2]].reads < waitIdx[1] /\ waitLog[waitIdx[2]].reads < waitIdx[2]
    /\ sent[1][1].t - sent[2][1].t < CallRate
    /\ sent[2][1].t - sent[1][1].t < CallRate

\* C11: with one caller, a wait() that found last_call set leaves it alone
\* until its sleep, if any, is over, and then sets it to the clock of that
\* moment; when it slept, that is not before the time it asked to sleep until,
\* and at least call_rate after the last_call it found
C11_MarkerWrittenAfterSleep ==
    [][\A c \in Threads :
          /\ pc[c] \in {"w_passed", "w_sleep"} => last_call' = last_call
          /\ (pc[c] = "w_write" /\ pc'[c] # "w_write") =>
                /\ last_call' = <<clock>>
                /\ clock >= now[c]
                /\ MustSleep(passed[c]) =>
                      /\ clock >= deadline[c]
                      /\ clock >= last_call[1] + CallRate]_vars

\* a wait() that slept has returned, later than the time it read before sleeping
C11_Witness ==
    \E c \in Threads :
        /\ pc[c] = "dispatch"
        /\ waitIdx[c] >= 2
        /\ passed[c] < CallRate
        /\ last_call = <<waitLog[waitIdx[c]].t>>
        /\ last_call[1] > now[c]
        /\ last_call[1] >= waitLog[waitIdx[c] - 1].t + CallRate

\* int(n) of a nonce
NonceTime(n) == CHOOSE t \in 0..MaxClock : <<ToString(t)>> = n

\* C12: the nonce of a call stays as it was read until the call is over; a GET
\* is sent only by a caller whose wait() has returned, not before that return,
\* which is not before the nonce was read; and the GET carries that nonce as
\* Api-Timestamp and a signature made over that same nonce, the url, GET and the
\* content hash
C12_NonceWaitSignGet ==
    [][\A c \in Threads :
          /\ (nonce[c] # <<>> /\ pc'[c] # "done") => nonce'[c] = nonce[c]
          /\ Len(sent'[c]) > Len(sent[c]) =>
                LET r == sent'[c][Len(sent'[c])]
                IN /\ pc[c] = "dispatch"
                   /\ waitIdx[c] > 0
                   /\ NonceTime(nonce[c]) <= waitLog[waitIdx[c]].t
                   /\ waitLog[waitIdx[c]].t <= r.t
                   /\ r.headers["Api-Timestamp"] = nonce[c]
                   /\ r.headers["Api-Signature"] =
                         HmacSha512(api_secret,
                                    nonce[c] \o r.url \o <<"GET">>
                                    \o r.headers["Api-Content-Hash"])]_vars

\* a GET went out after the wait() returned, which was after the nonce was read
C12_Witness ==
    \E c \in Threads :
        /\ Len(sent[c]) = 1
        /\ waitIdx[c] > 0
        /\ NonceTime(sent[c][1].headers["Api-Timestamp"]) < waitLog[waitIdx[c]].t
        /\ waitLog[waitIdx[c]].t < sent[c][1].t

\* C14: with one caller, a wait() that found last_call set asks for no sleep
\* when at least call_rate has passed since last_call, and otherwise for
\* call_rate minus the time passed, which is more than nothing and at most
\* call_rate
C14_SleepAtMostCallRate ==
    [][\A c \in Threads :
          (pc[c] = "w_passed" /\ pc'[c] # "w_passed") =>
             LET elapsed == now[c] - last_call[1]
             IN /\ elapsed >= 0
                /\ IF elapsed >= CallRate
                   THEN pc'[c] = "w_write" /\ deadline'[c] = deadline[c]
                   ELSE /\ pc'[c] = "w_sleep"
                        /\ deadline'[c] - clock = CallRate - elapsed
                        /\ deadline'[c] - clock \in 1..CallRate]_vars

\* a sleep shorter than call_rate is under way
C14_Witness ==
    \E c \in Threads :
        /\ pc[c] = "w_sleep"
        /\ passed[c] > 0
        /\ passed[c] < CallRate
        /\ deadline[c] > clock

\* C13 as stated: of two requests sent one after the other through one client
\* by one caller, the later carries the strictly greater nonce
C13_NonceStrictlyGreater ==
    Len(stamps) = 2 => NonceTime(stamps[2]) > NonceTime(stamps[1])

\* C13: of two requests sent one after the other through one client by one
\* caller, the later carries a nonce that is greater than or equal to the
\* earlier one's, so that no request's nonce is below that of any request sent
\* before it
C13_NonceNeverSmaller ==
    Len(stamps) = 2 => NonceTime(stamps[2]) >= NonceTime(stamps[1])

\* two requests in a row, both of calls begun in the same millisecond, carry
\* the same nonce
C13_Witness ==
    /\ Len(stamps) = 2
    /\ stamps[2] = stamps[1]
    /\ \E c \in Threads : Len(sent[c]) = 1 /\ sent[c][1].headers["Api-Timestamp"] = stamps[2]

====
